---- MODULE Spec2Model ----
(***************************************************************************)
(* Model of NSECGenerator (src/src/main.rs): the NSEC3 hash function, the  *)
(* cache file name, the wordlist loader, the parallel hash engine with its *)
(* mutex-guarded table, the single-configuration path of main and the      *)
(* batch path generate_common_configs.                                     *)
(*                                                                         *)
(* Text is a sequence of byte values (ASCII codes). A 32-bit word is a     *)
(* pair <<hi, lo>> of 16-bit halves, so that no intermediate value leaves  *)
(* the range of the model checker's integers.                              *)
(***************************************************************************)
EXTENDS Integers, Sequences, FiniteSets, TLC

(***************************************************************************)
(* 32-bit word arithmetic used by the two digests.                         *)
(***************************************************************************)
Pow2(n) == <<1, 2, 4, 8, 16, 32, 64, 128, 256, 512, 1024, 2048, 4096, 8192, 16384, 32768, 65536>>[n + 1]

\* bitwise AND of two 4-bit values: AndNib[a + 1][b + 1]
AndNib == <<
   <<0, 0, 0, 0, 0, 0, 0, 0, 0, 0, 0, 0, 0, 0, 0, 0>>,
   <<0, 1, 0, 1, 0, 1, 0, 1, 0, 1, 0, 1, 0, 1, 0, 1>>,
   <<0, 0, 2, 2, 0, 0, 2, 2, 0, 0, 2, 2, 0, 0, 2, 2>>,
   <<0, 1, 2, 3, 0, 1, 2, 3, 0, 1, 2, 3, 0, 1, 2, 3>>,
   <<0, 0, 0, 0, 4, 4, 4, 4, 0, 0, 0, 0, 4, 4, 4, 4>>,
   <<0, 1, 0, 1, 4, 5, 4, 5, 0, 1, 0, 1, 4, 5, 4, 5>>,
   <<0, 0, 2, 2, 4, 4, 6, 6, 0, 0, 2, 2, 4, 4, 6, 6>>,
   <<0, 1, 2, 3, 4, 5, 6, 7, 0, 1, 2, 3, 4, 5, 6, 7>>,
   <<0, 0, 0, 0, 0, 0, 0, 0, 8, 8, 8, 8, 8, 8, 8, 8>>,
   <<0, 1, 0, 1, 0, 1, 0, 1, 8, 9, 8, 9, 8, 9, 8, 9>>,
   <<0, 0, 2, 2, 0, 0, 2, 2, 8, 8, 10, 10, 8, 8, 10, 10>>,
   <<0, 1, 2, 3, 0, 1, 2, 3, 8, 9, 10, 11, 8, 9, 10, 11>>,
   <<0, 0, 0, 0, 4, 4, 4, 4, 8, 8, 8, 8, 12, 12, 12, 12>>,
   <<0, 1, 0, 1, 4, 5, 4, 5, 8, 9, 8, 9, 12, 13, 12, 13>>,
   <<0, 0, 2, 2, 4, 4, 6, 6, 8, 8, 10, 10, 12, 12, 14, 14>>,
   <<0, 1, 2, 3, 4, 5, 6, 7, 8, 9, 10, 11, 12, 13, 14, 15>> >>

And16(a, b) == AndNib[(a % 16) + 1][(b % 16) + 1]
   + 16 * AndNib[((a \div 16) % 16) + 1][((b \div 16) % 16) + 1]
   + 256 * AndNib[((a \div 256) % 16) + 1][((b \div 256) % 16) + 1]
   + 4096 * AndNib[(a \div 4096) + 1][(b \div 4096) + 1]

WAnd(x, y) == <<And16(x[1], y[1]), And16(x[2], y[2])>>

\* a | b = a + b - (a & b)
WOr(x, y) == <<x[1] + y[1] - And16(x[1], y[1]), x[2] + y[2] - And16(x[2], y[2])>>

\* a ^ b = a + b - 2 (a & b)
WXor(x, y) == <<x[1] + y[1] - 2 * And16(x[1], y[1]), x[2] + y[2] - 2 * And16(x[2], y[2])>>

WNot(x) == <<65535 - x[1], 65535 - x[2]>>

\* wrapping addition modulo 2^32
WAdd(x, y) == LET lo == x[2] + y[2] IN <<(x[1] + y[1] + (lo \div 65536)) % 65536, lo % 65536>>

\* the wrapping sum of the words of a sequence of four
WAdd4(x) == LET lo == x[1][2] + x[2][2] + x[3][2] + x[4][2]
            IN <<(x[1][1] + x[2][1] + x[3][1] + x[4][1] + (lo \div 65536)) % 65536, lo % 65536>>

\* the wrapping sum of the words of a sequence of five
WAdd5(x) == LET lo == x[1][2] + x[2][2] + x[3][2] + x[4][2] + x[5][2]
            IN <<(x[1][1] + x[2][1] + x[3][1] + x[4][1] + x[5][1] + (lo \div 65536)) % 65536, lo % 65536>>

RotlSmall(x, n) == IF n = 0 THEN x ELSE
   <<((x[1] * Pow2(n)) % 65536) + (x[2] \div Pow2(16 - n)),
     ((x[2] * Pow2(n)) % 65536) + (x[1] \div Pow2(16 - n))>>

\* rotate a 32-bit word left by n bits, 0 <= n < 32
Rotl(x, n) == IF n < 16 THEN RotlSmall(x, n) ELSE RotlSmall(<<x[2], x[1]>>, n - 16)

Zeros(n) == [i \in 1..n |-> 0]

(***************************************************************************)
(* SHA-1 (FIPS 180-4), the digest behind Sha1::new / update / finalize.    *)
(* Messages are shorter than 8192 bytes, so the bit length fits two bytes. *)
(***************************************************************************)
Sha1Pad(m) == LET l == Len(m)
                  bits == l * 8
              IN m \o <<128>> \o Zeros((119 - (l % 64)) % 64)
                   \o <<0, 0, 0, 0, 0, 0, (bits \div 256) % 256, bits % 256>>

\* the four bytes of a word, most significant first
BEBytes(w) == <<w[1] \div 256, w[1] % 256, w[2] \div 256, w[2] % 256>>

BEWord(m, o) == <<m[o + 1] * 256 + m[o + 2], m[o + 3] * 256 + m[o + 4]>>

\* the next word of the message schedule
Sha1Extend(w) == LET t == Len(w) + 1 IN
   Append(w, Rotl(WXor(WXor(w[t - 3], w[t - 8]), WXor(w[t - 14], w[t - 16])), 1))

\* the schedule extended to n words: first to half the way, then to n
RECURSIVE Sha1Schedule(_, _)
Sha1Schedule(w, n) == IF Len(w) >= n THEN w
   ELSE IF Len(w) + 1 = n THEN Sha1Extend(w)
   ELSE Sha1Schedule(Sha1Schedule(w, Len(w) + ((n - Len(w)) \div 2)), n)

Sha1F(t, b, c, d) == IF t < 20 THEN WOr(WAnd(b, c), WAnd(WNot(b), d))
   ELSE IF t < 40 THEN WXor(WXor(b, c), d)
   ELSE IF t < 60 THEN WOr(WOr(WAnd(b, c), WAnd(b, d)), WAnd(c, d))
   ELSE WXor(WXor(b, c), d)

Sha1K(t) == IF t < 20 THEN <<23170, 31129>> ELSE IF t < 40 THEN <<28377, 60321>>
   ELSE IF t < 60 THEN <<36635, 48348>> ELSE <<51810, 49622>>

\* s = <<a, b, c, d, e, t, w>>: the working variables, the round number and
\* the message schedule
Sha1Round(s) ==
   <<WAdd5(<<Rotl(s[1], 5), Sha1F(s[6], s[2], s[3], s[4]), s[5], Sha1K(s[6]), s[7][s[6] + 1]>>),
     s[1], Rotl(s[2], 30), s[3], s[4], s[6] + 1, s[7]>>

\* the rounds up to round n: first to half the way, then to n
RECURSIVE Sha1Rounds(_, _)
Sha1Rounds(s, n) == IF s[6] >= n THEN s
   ELSE IF s[6] + 1 = n THEN Sha1Round(s)
   ELSE Sha1Rounds(Sha1Rounds(s, s[6] + ((n - s[6]) \div 2)), n)

Sha1Block(h, m, o) == LET w == Sha1Schedule([i \in 1..16 |-> BEWord(m, o + 4 * (i - 1))], 80)
                          s == Sha1Rounds(<<h[1], h[2], h[3], h[4], h[5], 0, w>>, 80)
                      IN <<WAdd(h[1], s[1]), WAdd(h[2], s[2]), WAdd(h[3], s[3]),
                           WAdd(h[4], s[4]), WAdd(h[5], s[5])>>

RECURSIVE Sha1Blocks(_, _, _)
Sha1Blocks(h, m, o) == IF o >= Len(m) THEN h ELSE Sha1Blocks(Sha1Block(h, m, o), m, o + 64)

Sha1Init == <<<<26437, 8961>>, <<61389, 43913>>, <<39098, 56574>>, <<4146, 21622>>, <<50130, 57840>>>>

\* the 20-byte digest of the byte sequence m
Sha1(m) == LET h == Sha1Blocks(Sha1Init, Sha1Pad(m), 0) IN
   BEBytes(h[1]) \o BEBytes(h[2]) \o BEBytes(h[3]) \o BEBytes(h[4]) \o BEBytes(h[5])

(***************************************************************************)
(* MD5 (RFC 1321), the digest behind md5::Context::new / consume / compute.*)
(***************************************************************************)
Md5Pad(m) == LET l == Len(m)
                 bits == l * 8
             IN m \o <<128>> \o Zeros((119 - (l % 64)) % 64)
                  \o <<bits % 256, (bits \div 256) % 256, 0, 0, 0, 0, 0, 0>>

\* the four bytes of a word, least significant first
LEBytes(w) == <<w[2] % 256, w[2] \div 256, w[1] % 256, w[1] \div 256>>

LEWord(m, o) == <<m[o + 4] * 256 + m[o + 3], m[o + 2] * 256 + m[o + 1]>>

Md5K == <<
   <<55146, 42104>>, <<59591, 46934>>, <<9248, 28891>>, <<49597, 52974>>,
   <<62844, 4015>>, <<18311, 50730>>, <<43056, 17939>>, <<64838, 38145>>,
   <<27008, 39128>>, <<35652, 63407>>, <<65535, 23473>>, <<35164, 55230>>,
   <<27536, 4386>>, <<64920, 29075>>, <<42617, 17294>>, <<18868, 2081>>,
   <<63006, 9570>>, <<49216, 45888>>, <<9822, 23121>>, <<59830, 51114>>,
   <<54831, 4189>>, <<580, 5203>>, <<55457, 59009>>, <<59347, 64456>>,
   <<8673, 52710>>, <<49975, 2006>>, <<62677, 3463>>, <<17754, 5357>>,
   <<43491, 59653>>, <<64751, 41976>>, <<26479, 729>>, <<36138, 19594>>,
   <<65530, 14658>>, <<34673, 63105>>, <<28061, 24866>>, <<64997, 14348>>,
   <<42174, 59972>>, <<19422, 53161>>, <<63163, 19296>>, <<48831, 48240>>,
   <<10395, 32454>>, <<60065, 10234>>, <<54511, 12421>>, <<1160, 7429>>,
   <<55764, 53305>>, <<59099, 39397>>, <<8098, 31992>>, <<50348, 22117>>,
   <<62505, 8772>>, <<17194, 65431>>, <<43924, 9127>>, <<64659, 41017>>,
   <<25947, 22979>>, <<36620, 52370>>, <<65519, 62589>>, <<34180, 24017>>,
   <<28584, 32335>>, <<65068, 59104>>, <<41729, 17172>>, <<19976, 4513>>,
   <<63315, 32386>>, <<48442, 62005>>, <<10967, 53947>>, <<60294, 54161>> >>

Md5S == <<7, 12, 17, 22, 5, 9, 14, 20, 4, 11, 16, 23, 6, 10, 15, 21>>

Md5Shift(i) == Md5S[4 * (i \div 16) + (i % 4) + 1]

Md5F(i, b, c, d) == IF i < 16 THEN WOr(WAnd(b, c), WAnd(WNot(b), d))
   ELSE IF i < 32 THEN WOr(WAnd(d, b), WAnd(WNot(d), c))
   ELSE IF i < 48 THEN WXor(WXor(b, c), d)
   ELSE WXor(c, WOr(b, WNot(d)))

Md5G(i) == IF i < 16 THEN i
   ELSE IF i < 32 THEN (5 * i + 1) % 16
   ELSE IF i < 48 THEN (3 * i + 5) % 16
   ELSE (7 * i) % 16

\* s = <<a, b, c, d, i, w>>: the working variables, the step number and the
\* message words
Md5Round(s) ==
   <<s[4],
     WAdd(s[2], Rotl(WAdd4(<<Md5F(s[5], s[2], s[3], s[4]), s[1], Md5K[s[5] + 1], s[6][Md5G(s[5]) + 1]>>),
                     Md5Shift(s[5]))),
     s[2], s[3], s[5] + 1, s[6]>>

\* the steps up to step n: first to half the way, then to n
RECURSIVE Md5Rounds(_, _)
Md5Rounds(s, n) == IF s[5] >= n THEN s
   ELSE IF s[5] + 1 = n THEN Md5Round(s)
   ELSE Md5Rounds(Md5Rounds(s, s[5] + ((n - s[5]) \div 2)), n)

Md5Block(h, m, o) == LET w == [i \in 1..16 |-> LEWord(m, o + 4 * (i - 1))]
                         s == Md5Rounds(<<h[1], h[2], h[3], h[4], 0, w>>, 64)
                     IN <<WAdd(h[1], s[1]), WAdd(h[2], s[2]), WAdd(h[3], s[3]), WAdd(h[4], s[4])>>

RECURSIVE Md5Blocks(_, _, _)
Md5Blocks(h, m, o) == IF o >= Len(m) THEN h ELSE Md5Blocks(Md5Block(h, m, o), m, o + 64)

Md5Init == <<<<26437, 8961>>, <<61389, 43913>>, <<39098, 56574>>, <<4146, 21622>>>>

\* the 16-byte digest of the byte sequence m
Md5(m) == LET h == Md5Blocks(Md5Init, Md5Pad(m), 0) IN
   LEBytes(h[1]) \o LEBytes(h[2]) \o LEBytes(h[3]) \o LEBytes(h[4])

(***************************************************************************)
(* Text: sequences of ASCII codes.                                         *)
(***************************************************************************)
\* str::to_lowercase on ASCII text: 'A'..'Z' become 'a'..'z'
ToLower(t) == [i \in 1..Len(t) |-> IF t[i] >= 65 /\ t[i] <= 90 THEN t[i] + 32 ELSE t[i]]

\* char::is_whitespace on ASCII: tab, LF, VT, FF, CR, space
IsSpace(c) == (c >= 9 /\ c <= 13) \/ c = 32

RECURSIVE TrimStart(_)
TrimStart(t) == IF t # <<>> /\ IsSpace(Head(t)) THEN TrimStart(Tail(t)) ELSE t

RECURSIVE TrimEnd(_)
TrimEnd(t) == IF t # <<>> /\ IsSpace(t[Len(t)]) THEN TrimEnd(SubSeq(t, 1, Len(t) - 1)) ELSE t

\* str::trim
Trim(t) == TrimEnd(TrimStart(t))

\* the decimal digits of n, as format!("{}") prints an unsigned integer
RECURSIVE Decimal(_)
Decimal(n) == IF n < 10 THEN <<48 + n>> ELSE Append(Decimal(n \div 10), 48 + (n % 10))

\* one digit of lower-case hexadecimal
HexDigit(v) == IF v < 10 THEN 48 + v ELSE 87 + v

\* format!("{:x}") of a digest: two lower-case hex digits per byte
HexLower(bytes) == [i \in 1..2 * Len(bytes) |->
   IF i % 2 = 1 THEN HexDigit(bytes[(i + 1) \div 2] \div 16) ELSE HexDigit(bytes[i \div 2] % 16)]

IsHexChar(c) == (c >= 48 /\ c <= 57) \/ (c >= 65 /\ c <= 70) \/ (c >= 97 /\ c <= 102)

HexVal(c) == IF c <= 57 THEN c - 48 ELSE IF c <= 70 THEN c - 55 ELSE c - 87

\* hex::decode succeeds on an even number of hex digits of either case
HexDecodeOk(t) == Len(t) % 2 = 0 /\ \A i \in 1..Len(t) : IsHexChar(t[i])

HexDecode(t) == [i \in 1..(Len(t) \div 2) |-> 16 * HexVal(t[2 * i - 1]) + HexVal(t[2 * i])]

\* the RFC 4648 base-32 alphabet "ABCDEFGHIJKLMNOPQRSTUVWXYZ234567"
Base32Char(v) == IF v < 26 THEN 65 + v ELSE 24 + v

\* base32::encode(Alphabet::RFC4648 { padding: false }, bytes): one character
\* per group of five bits, the last group zero-filled, no '=' appended
Base32Encode(bytes) == LET n == Len(bytes)
                           at(k) == IF k <= n THEN bytes[k] ELSE 0
                       IN [c \in 1..((8 * n + 4) \div 5) |->
                             LET p == 5 * (c - 1)
                                 b == (p \div 8) + 1
                                 o == p % 8
                             IN Base32Char(((at(b) * 256 + at(b + 1)) \div Pow2(11 - o)) % 32)]

(***************************************************************************)
(* calculate_nsec3_hash, get_cache_filename and load_wordlist.             *)
(***************************************************************************)
\* SHA1(lower-cased fqdn bytes + salt)
first_hash(fqdn, salt_bytes) == Sha1(ToLower(fqdn) \o salt_bytes)

\* a loop body that feeds the base-32 text of the previous digest back in
next_hash_text(hash, salt_bytes) == Sha1(ToLower(Base32Encode(hash)) \o salt_bytes)

\* one pass of the loop body: SHA1(previous raw digest + salt)
next_hash(hash, salt_bytes) == Sha1(hash \o salt_bytes)

\* the encoding without the final to_lowercase()
encode_hash_upper(hash) == Base32Encode(hash)

\* base-32 without padding, lower-cased
encode_hash(hash) == ToLower(Base32Encode(hash))

\* the loop: s = <<hash, passes left>>
RECURSIVE iterate_hash(_, _)
iterate_hash(s, salt_bytes) ==
   IF s[2] = 0 THEN s[1] ELSE iterate_hash(<<next_hash(s[1], salt_bytes), s[2] - 1>>, salt_bytes)

calculate_nsec3_hash(fqdn, salt_bytes, iterations) ==
   encode_hash(iterate_hash(<<first_hash(fqdn, salt_bytes), iterations>>, salt_bytes))

Underscore == <<95>>

NamePrefix == <<110, 115, 101, 99, 51, 95>>

NameSuffix == <<46, 106, 115, 111, 110>>

\* a file name keyed by the decoded salt instead of the salt text
get_cache_filename_decoded(salt, iterations) ==
   LET cache_key == HexLower(IF salt # <<>> /\ HexDecodeOk(salt) THEN HexDecode(salt) ELSE salt)
                       \o Underscore \o Decimal(iterations)
       hash == HexLower(Md5(cache_key))
   IN NamePrefix \o hash \o NameSuffix

\* "nsec3_" + hex(md5(salt + "_" + iterations)) + ".json"
get_cache_filename(salt, iterations) ==
   LET cache_key == salt \o Underscore \o Decimal(iterations)
       hash == HexLower(Md5(cache_key))
   IN NamePrefix \o hash \o NameSuffix

\* A wordlist file is [exists, lines]; reading a line gives [ok, text]:
\* ok = FALSE is an io::Error of BufRead::lines (a read error, a line that
\* is not UTF-8).
RECURSIVE MapWhileOk(_)
MapWhileOk(lines) == IF lines = <<>> \/ ~Head(lines).ok THEN <<>>
                     ELSE <<Head(lines).text>> \o MapWhileOk(Tail(lines))

RECURSIVE FilterNonEmpty(_)
FilterNonEmpty(ts) == IF ts = <<>> THEN <<>>
                      ELSE IF Head(ts) = <<>> THEN FilterNonEmpty(Tail(ts))
                      ELSE <<Head(ts)>> \o FilterNonEmpty(Tail(ts))

\* Err when File::open fails; otherwise the trimmed non-empty lines read
\* before the first line that fails to read
load_wordlist(file) ==
   IF ~file.exists THEN [ok |-> FALSE, val |-> <<>>]
   ELSE LET read == MapWhileOk(file.lines)
        IN [ok |-> TRUE, val |-> FilterNonEmpty([i \in 1..Len(read) |-> Trim(read[i])])]

\* the salt bytes both paths hash with: empty, the decoded hex, or on a
\* decode error the text itself
parse_salt(salt) == IF salt = <<>> THEN <<>>
                    ELSE IF HexDecodeOk(salt) THEN HexDecode(salt) ELSE salt

\* format!("{}.{}", subdomain, domain)
make_fqdn(subdomain, domain) == subdomain \o <<46>> \o domain

(***************************************************************************)
(* Bounds and input sets.                                                  *)
(***************************************************************************)
\* longest wordlist file, in lines
MaxLines == 2

\* size of the rayon thread pool (--threads)
NumThreads == 2

\* largest --iterations of a single-configuration run
MaxIterations == 1

\* largest iteration count the hash function is applied with on its own
MaxHashIterations == 3

\* most I/O failures the output directory produces in one process
MaxFaults == 1

\* most runs of the program over one output directory
MaxRuns == 2

\* "a.io", "b.io"
DomainA == <<97, 46, 105, 111>>

DomainB == <<98, 46, 105, 111>>

\* "www", " WWW ", "m", ""
LineTexts == {<<119, 119, 119>>, <<32, 87, 87, 87, 32>>, <<109>>, <<>>}

ReadError == [ok |-> FALSE, text |-> <<>>]

Lines == {[ok |-> TRUE, text |-> t] : t \in LineTexts} \cup {ReadError}

SeqsUpTo(S, n) == UNION {[1..k -> S] : k \in 0..n}

MissingFile == [exists |-> FALSE, lines |-> <<>>]

FileOf(ls) == [exists |-> TRUE, lines |-> ls]

Wordlists == {MissingFile} \cup {FileOf(ls) : ls \in SeqsUpTo(Lines, MaxLines)}

OkLine(t) == [ok |-> TRUE, text |-> t]

\* the wordlists of the batch runs: missing; "www","m"; "www"," WWW ";
\* "m", then a read error
BatchWordlists == {MissingFile,
                   FileOf(<<OkLine(<<119, 119, 119>>), OkLine(<<109>>)>>),
                   FileOf(<<OkLine(<<119, 119, 119>>), OkLine(<<32, 87, 87, 87, 32>>)>>),
                   FileOf(<<OkLine(<<109>>), ReadError>>)}

\* --salt of a single-configuration run: "", "AB", "xyz" (not hex)
SaltTexts == {<<>>, <<65, 66>>, <<120, 121, 122>>}

\* salts of repeated runs: "AB" and "ab" decode to the same byte
RunSalts == {<<65, 66>>, <<97, 98>>}

\* wordlists of repeated runs: "www"; "m"
RunWordlists == {FileOf(<<OkLine(<<119, 119, 119>>)>>), FileOf(<<OkLine(<<109>>)>>)}

\* the configuration list of generate_common_configs
configs == <<
   [name |-> "No salt, no iterations (30% of NSEC3 domains)", salt |-> <<>>, iterations |-> 0],
   [name |-> "Google Cloud DNS", salt |-> <<68, 69, 65, 68, 66, 69, 69, 70>>, iterations |-> 5],
   [name |-> "AWS Route53", salt |-> <<67, 65, 70, 69, 66, 65, 66, 69>>, iterations |-> 10],
   [name |-> "Cloudflare minimal", salt |-> <<48, 48>>, iterations |-> 0],
   [name |-> "Light security", salt |-> <<65, 65, 66, 66, 67, 67, 68, 68>>, iterations |-> 3],
   [name |-> "Medium security", salt |-> <<49, 50, 51, 52, 53, 54, 55, 56>>, iterations |-> 5],
   [name |-> "High security", salt |-> <<70, 69, 68, 67, 66, 65, 57, 56>>, iterations |-> 10],
   [name |-> "Very high security", salt |-> <<70, 70, 70, 70, 70, 70, 70, 70>>, iterations |-> 15] >>

total == Len(configs)

Labels == {Trim(t) : t \in LineTexts} \ {<<>>}

\* calculate_nsec3_hash tabulated over a set of <<fqdn, salt bytes, iterations>>
RECURSIVE HashTable(_)
HashTable(S) == IF S = {} THEN <<>>
                ELSE LET k == CHOOSE x \in S : TRUE
                     IN (k :> calculate_nsec3_hash(k[1], k[2], k[3])) @@ HashTable(S \ {k})

\* get_cache_filename tabulated over a set of <<salt text, iterations>>
RECURSIVE NameTable(_)
NameTable(S) == IF S = {} THEN <<>>
                ELSE LET k == CHOOSE x \in S : TRUE
                     IN (k :> get_cache_filename(k[1], k[2])) @@ NameTable(S \ {k})

Range(f) == {f[i] : i \in DOMAIN f}

\* the configurations a process started with these arguments works through
ConfigsOf(e, s, n) == IF e = "batch" THEN {<<configs[c].salt, configs[c].iterations>> : c \in 1..total}
                      ELSE {<<s, n>>}

\* the two pure functions on the arguments such a process passes them
FunctionsOf(e, d, w, s, n) ==
   [hash |-> HashTable({<<make_fqdn(l, d), parse_salt(c[1]), c[2]>> :
                           l \in Range(load_wordlist(w).val), c \in ConfigsOf(e, s, n)}),
    name |-> NameTable(ConfigsOf(e, s, n))]

(***************************************************************************)
(* State.                                                                  *)
(***************************************************************************)
VARIABLES
   entry,      \* "single" (no subcommand), "batch" (generate-common), "call"
   domain,     \* --domain
   wordlist,   \* the file at --wordlist
   salt,       \* the salt text: args.salt, or the salt parameter of generate_hash_for_config
   iterations, \* args.iterations, or the iterations parameter
   pc,         \* the main thread's position
   cfg,        \* index of the batch loop
   subdomains, \* the loaded candidate list
   salt_bytes, \* the salt the workers hash with
   hashes,     \* the table behind Arc<Mutex<HashMap>>: hash text -> fqdn
   mutex,      \* TRUE while a MutexGuard is alive
   task,       \* per candidate, the for_each closure call: [pc, fqdn, hash]
   order,      \* the candidates in the order their insert calls ran
   files,      \* the output directory: file name -> content
   log,        \* what the process printed: [ev, cfg]
   opens,      \* number of File::open calls on the wordlist
   faults,     \* I/O failures so far in this process
   ret,        \* result of generate_hash_for_config: "none", "ok", "err"
   runs,       \* number of the current run
   history,    \* the earlier runs: [salt, iterations, domain, ok]
   fn,         \* calculate_nsec3_hash and get_cache_filename on this process's arguments
   h_fqdn, h_salt, h_iter, \* the arguments of a calculate_nsec3_hash call
   h_pc,       \* its position
   h_hash,     \* its variable hash
   h_i,        \* loop iterations done
   h_rounds,   \* SHA-1 digests computed
   h_out       \* its return value

progVars == <<entry, domain, wordlist, salt, iterations, pc, cfg, subdomains, salt_bytes, hashes,
              mutex, task, order, files, log, opens, faults, ret, runs, history, fn>>

hashVars == <<h_fqdn, h_salt, h_iter, h_pc, h_hash, h_i, h_rounds, h_out>>

vars == <<progVars, hashVars>>

EmptyMap == <<>>

\* the state of a process that has just started
StartProcess(e, d, w, s, n, at) ==
   /\ entry = e /\ domain = d /\ wordlist = w /\ salt = s /\ iterations = n
   /\ pc = at /\ cfg = 0 /\ subdomains = <<>> /\ salt_bytes = <<>> /\ hashes = EmptyMap
   /\ mutex = FALSE /\ task = <<>> /\ order = <<>> /\ files = EmptyMap /\ log = <<>>
   /\ opens = 0 /\ faults = 0 /\ ret = "none" /\ runs = 1 /\ history = {}

\* a process that has just started, with the two pure functions tabulated on
\* the arguments it passes them
StartTabulated(e, d, w, s, n, at) ==
   /\ fn = FunctionsOf(e, d, w, s, n)
   /\ StartProcess(e, d, w, s, n, at)

NoHashCall ==
   /\ h_fqdn = <<>> /\ h_salt = <<>> /\ h_iter = 0 /\ h_pc = "idle"
   /\ h_hash = <<>> /\ h_i = 0 /\ h_rounds = 0 /\ h_out = <<>>

(***************************************************************************)
(* calculate_nsec3_hash, statement by statement.                           *)
(***************************************************************************)
\* "M.A.io"
HashFqdns == {make_fqdn(l, DomainA) : l \in Labels} \cup {<<77, 46, 65, 46, 105, 111>>}

HashSalts == {<<>>, <<0>>, <<222, 173, 190, 239>>, <<120, 121, 122>>}

InitHash ==
   /\ StartTabulated("none", <<>>, MissingFile, <<>>, 0, "idle")
   /\ h_fqdn \in HashFqdns /\ h_salt \in HashSalts /\ h_iter \in 0..MaxHashIterations
   /\ h_pc = "first" /\ h_hash = <<>> /\ h_i = 0 /\ h_rounds = 0 /\ h_out = <<>>

HashFirst ==
   /\ h_pc = "first"
   /\ h_hash' = first_hash(h_fqdn, h_salt)
   /\ h_rounds' = h_rounds + 1
   /\ h_pc' = "loop"
   /\ UNCHANGED <<h_fqdn, h_salt, h_iter, h_i, h_out, progVars>>

HashLoop ==
   /\ h_pc = "loop" /\ h_i < h_iter
   /\ h_hash' = next_hash(h_hash, h_salt)
   /\ h_rounds' = h_rounds + 1
   /\ h_i' = h_i + 1
   /\ UNCHANGED <<h_fqdn, h_salt, h_iter, h_pc, h_out, progVars>>

HashEncode ==
   /\ h_pc = "loop" /\ h_i >= h_iter
   /\ h_out' = encode_hash(h_hash)
   /\ h_pc' = "done"
   /\ UNCHANGED <<h_fqdn, h_salt, h_iter, h_hash, h_i, h_rounds, progVars>>

NextHash == HashFirst \/ HashLoop \/ HashEncode

SpecHash == InitHash /\ [][NextHash]_vars

(***************************************************************************)
(* The parallel phase: subdomains.par_iter().for_each(|subdomain| ...).    *)
(* One closure call per candidate, at most NumThreads of them running.     *)
(***************************************************************************)
InParallel == pc \in {"m_par", "g_par"}

Running == {i \in DOMAIN task : task[i].pc \in {"hashed", "locked"}}

AllDone == \A i \in DOMAIN task : task[i].pc = "done"

NewTasks(n) == [i \in 1..n |-> [pc |-> "pending", fqdn |-> <<>>, hash |-> <<>>]]

\* HashMap::insert: the entry for key k becomes v, whether or not k was present
Insert(m, k, v) == [x \in DOMAIN m \cup {k} |-> IF x = k THEN v ELSE m[x]]

\* let fqdn = format!(...); let hash = calculate_nsec3_hash(&fqdn, &salt_bytes, iterations);
WorkerHash(i) ==
   /\ InParallel
   /\ task[i].pc = "pending"
   /\ Cardinality(Running) < NumThreads
   /\ LET fqdn == make_fqdn(subdomains[i], domain)
      IN task' = [task EXCEPT ![i] = [pc |-> "hashed", fqdn |-> fqdn,
                                       hash |-> fn.hash[<<fqdn, salt_bytes, iterations>>]]]
   /\ UNCHANGED <<entry, domain, wordlist, salt, iterations, pc, cfg, subdomains, salt_bytes, hashes,
                  mutex, order, files, log, opens, faults, ret, runs, history, fn, hashVars>>

\* a lock that does not wait for the guard of another closure call
WorkerLockNoWait(i) ==
   /\ InParallel
   /\ task[i].pc = "hashed"
   /\ mutex' = TRUE
   /\ task' = [task EXCEPT ![i].pc = "locked"]
   /\ UNCHANGED <<entry, domain, wordlist, salt, iterations, pc, cfg, subdomains, salt_bytes, hashes,
                  order, files, log, opens, faults, ret, runs, history, fn, hashVars>>

\* hashes.lock().unwrap(): blocks until no other guard is alive
WorkerLock(i) ==
   /\ InParallel
   /\ task[i].pc = "hashed"
   /\ ~mutex
   /\ mutex' = TRUE
   /\ task' = [task EXCEPT ![i].pc = "locked"]
   /\ UNCHANGED <<entry, domain, wordlist, salt, iterations, pc, cfg, subdomains, salt_bytes, hashes,
                  order, files, log, opens, faults, ret, runs, history, fn, hashVars>>

\* an insert that keeps the entry already present (entry().or_insert())
WorkerInsertKeepFirst(i) ==
   /\ InParallel
   /\ task[i].pc = "locked"
   /\ hashes' = IF task[i].hash \in DOMAIN hashes THEN hashes
                ELSE Insert(hashes, task[i].hash, task[i].fqdn)
   /\ order' = Append(order, i)
   /\ mutex' = FALSE
   /\ task' = [task EXCEPT ![i].pc = "done"]
   /\ UNCHANGED <<entry, domain, wordlist, salt, iterations, pc, cfg, subdomains, salt_bytes,
                  files, log, opens, faults, ret, runs, history, fn, hashVars>>

\* .insert(hash, fqdn); the guard is dropped at the end of the statement
WorkerInsert(i) ==
   /\ InParallel
   /\ task[i].pc = "locked"
   /\ hashes' = Insert(hashes, task[i].hash, task[i].fqdn)
   /\ order' = Append(order, i)
   /\ mutex' = FALSE
   /\ task' = [task EXCEPT ![i].pc = "done"]
   /\ UNCHANGED <<entry, domain, wordlist, salt, iterations, pc, cfg, subdomains, salt_bytes,
                  files, log, opens, faults, ret, runs, history, fn, hashVars>>

(***************************************************************************)
(* The output directory.                                                   *)
(***************************************************************************)
\* the CacheFile that is serialised
CacheFile == [domain |-> domain, salt |-> salt, iterations |-> iterations,
              wordlist_size |-> Len(subdomains), hashes |-> hashes]

\* what fs::write leaves when it fails after File::create truncated the file
Truncated == [truncated |-> TRUE]

WriteFile(fs, name, content) == [x \in DOMAIN fs \cup {name} |-> IF x = name THEN content ELSE fs[x]]

CanFail == faults < MaxFaults

Warning == [ev |-> "warning", cfg |-> 0]

(***************************************************************************)
(* main without a subcommand: one configuration.                           *)
(***************************************************************************)
\* lines 344-393: dispatch on the subcommand
Main ==
   /\ pc = "main"
   /\ IF entry = "batch" THEN pc' = "b_loop" /\ cfg' = 1
                         ELSE pc' = "m_load" /\ cfg' = cfg
   /\ UNCHANGED <<entry, domain, wordlist, salt, iterations, subdomains, salt_bytes, hashes,
                  mutex, task, order, files, log, opens, faults, ret, runs, history, fn, hashVars>>

\* let subdomains = load_wordlist(&wordlist)?;
MainLoad ==
   /\ pc = "m_load"
   /\ opens' = opens + 1
   /\ LET r == load_wordlist(wordlist)
      IN IF r.ok THEN subdomains' = r.val /\ pc' = "m_salt"
                 ELSE subdomains' = subdomains /\ pc' = "exit_err"
   /\ UNCHANGED <<entry, domain, wordlist, salt, iterations, cfg, salt_bytes, hashes,
                  mutex, task, order, files, log, faults, ret, runs, history, fn, hashVars>>

\* lines 406-429: parse the salt, warn when it is not hex, create the table
MainSalt ==
   /\ pc = "m_salt"
   /\ salt_bytes' = parse_salt(salt)
   /\ log' = IF salt # <<>> /\ ~HexDecodeOk(salt) THEN Append(log, Warning) ELSE log
   /\ hashes' = EmptyMap
   /\ task' = NewTasks(Len(subdomains))
   /\ order' = <<>>
   /\ pc' = "m_par"
   /\ UNCHANGED <<entry, domain, wordlist, salt, iterations, cfg, subdomains,
                  mutex, files, opens, faults, ret, runs, history, fn, hashVars>>

\* for_each returns once every closure call has returned
MainJoin ==
   /\ pc = "m_par" /\ AllDone
   /\ pc' = "m_mkdir"
   /\ UNCHANGED <<entry, domain, wordlist, salt, iterations, cfg, subdomains, salt_bytes, hashes,
                  mutex, task, order, files, log, opens, faults, ret, runs, history, fn, hashVars>>

\* fs::create_dir_all(&args.output)?;
MainMkdir ==
   /\ pc = "m_mkdir"
   /\ pc' = "m_write"
   /\ UNCHANGED <<entry, domain, wordlist, salt, iterations, cfg, subdomains, salt_bytes, hashes,
                  mutex, task, order, files, log, opens, faults, ret, runs, history, fn, hashVars>>

MainMkdirFail ==
   /\ pc = "m_mkdir" /\ CanFail
   /\ faults' = faults + 1
   /\ pc' = "exit_err"
   /\ UNCHANGED <<entry, domain, wordlist, salt, iterations, cfg, subdomains, salt_bytes, hashes,
                  mutex, task, order, files, log, opens, ret, runs, history, fn, hashVars>>

\* lines 457-473: fs::write(&output_path, json)?;
MainWrite ==
   /\ pc = "m_write"
   /\ files' = WriteFile(files, fn.name[<<salt, iterations>>], CacheFile)
   /\ pc' = "m_meta"
   /\ UNCHANGED <<entry, domain, wordlist, salt, iterations, cfg, subdomains, salt_bytes, hashes,
                  mutex, task, order, log, opens, faults, ret, runs, history, fn, hashVars>>

\* the write fails: the file is untouched, or left truncated
MainWriteFail ==
   /\ pc = "m_write" /\ CanFail
   /\ faults' = faults + 1
   /\ \/ files' = files
      \/ files' = WriteFile(files, fn.name[<<salt, iterations>>], Truncated)
   /\ pc' = "exit_err"
   /\ UNCHANGED <<entry, domain, wordlist, salt, iterations, cfg, subdomains, salt_bytes, hashes,
                  mutex, task, order, log, opens, ret, runs, history, fn, hashVars>>

\* let file_size = fs::metadata(&output_path)?.len(); ... Ok(())
MainMeta ==
   /\ pc = "m_meta"
   /\ pc' = "exit_ok"
   /\ UNCHANGED <<entry, domain, wordlist, salt, iterations, cfg, subdomains, salt_bytes, hashes,
                  mutex, task, order, files, log, opens, faults, ret, runs, history, fn, hashVars>>

MainMetaFail ==
   /\ pc = "m_meta" /\ CanFail
   /\ faults' = faults + 1
   /\ pc' = "exit_err"
   /\ UNCHANGED <<entry, domain, wordlist, salt, iterations, cfg, subdomains, salt_bytes, hashes,
                  mutex, task, order, files, log, opens, ret, runs, history, fn, hashVars>>

(***************************************************************************)
(* generate_hash_for_config(domain, wordlist_path, salt, iterations,       *)
(* output_dir).                                                            *)
(***************************************************************************)
\* where the function returns to
Return(r) ==
   /\ ret' = r
   /\ pc' = IF entry = "batch" THEN "b_result" ELSE "returned"

\* a generator that reads the wordlist for the first configuration only
GenLoadCached ==
   /\ pc = "g_load"
   /\ IF cfg <= 1
      THEN /\ opens' = opens + 1
           /\ LET r == load_wordlist(wordlist)
              IN IF r.ok THEN subdomains' = r.val /\ pc' = "g_salt" /\ ret' = ret
                         ELSE subdomains' = subdomains /\ Return("err")
      ELSE opens' = opens /\ subdomains' = subdomains /\ pc' = "g_salt" /\ ret' = ret
   /\ UNCHANGED <<entry, domain, wordlist, salt, iterations, cfg, salt_bytes, hashes,
                  mutex, task, order, files, log, faults, runs, history, fn, hashVars>>

\* let subdomains = load_wordlist(wordlist_path)?;
GenLoad ==
   /\ pc = "g_load"
   /\ opens' = opens + 1
   /\ LET r == load_wordlist(wordlist)
      IN IF r.ok THEN subdomains' = r.val /\ pc' = "g_salt" /\ ret' = ret
                 ELSE subdomains' = subdomains /\ Return("err")
   /\ UNCHANGED <<entry, domain, wordlist, salt, iterations, cfg, salt_bytes, hashes,
                  mutex, task, order, files, log, faults, runs, history, fn, hashVars>>

\* lines 222-230: parse the salt, create the table
GenSalt ==
   /\ pc = "g_salt"
   /\ salt_bytes' = parse_salt(salt)
   /\ hashes' = EmptyMap
   /\ task' = NewTasks(Len(subdomains))
   /\ order' = <<>>
   /\ pc' = "g_par"
   /\ UNCHANGED <<entry, domain, wordlist, salt, iterations, cfg, subdomains,
                  mutex, files, log, opens, faults, ret, runs, history, fn, hashVars>>

\* a for_each that returns without waiting for the closure calls
GenJoinNoWait ==
   /\ pc = "g_par"
   /\ pc' = "g_mkdir"
   /\ UNCHANGED <<entry, domain, wordlist, salt, iterations, cfg, subdomains, salt_bytes, hashes,
                  mutex, task, order, files, log, opens, faults, ret, runs, history, fn, hashVars>>

\* for_each returns once every closure call has returned
GenJoin ==
   /\ pc = "g_par" /\ AllDone
   /\ pc' = "g_mkdir"
   /\ UNCHANGED <<entry, domain, wordlist, salt, iterations, cfg, subdomains, salt_bytes, hashes,
                  mutex, task, order, files, log, opens, faults, ret, runs, history, fn, hashVars>>

\* fs::create_dir_all(output_dir)?;
GenMkdir ==
   /\ pc = "g_mkdir"
   /\ pc' = "g_write"
   /\ UNCHANGED <<entry, domain, wordlist, salt, iterations, cfg, subdomains, salt_bytes, hashes,
                  mutex, task, order, files, log, opens, faults, ret, runs, history, fn, hashVars>>

GenMkdirFail ==
   /\ pc = "g_mkdir" /\ CanFail
   /\ faults' = faults + 1
   /\ Return("err")
   /\ UNCHANGED <<entry, domain, wordlist, salt, iterations, cfg, subdomains, salt_bytes, hashes,
                  mutex, task, order, files, log, opens, runs, history, fn, hashVars>>

\* lines 242-255: fs::write(&output_path, json)?;
GenWrite ==
   /\ pc = "g_write"
   /\ files' = WriteFile(files, fn.name[<<salt, iterations>>], CacheFile)
   /\ pc' = "g_meta"
   /\ UNCHANGED <<entry, domain, wordlist, salt, iterations, cfg, subdomains, salt_bytes, hashes,
                  mutex, task, order, log, opens, faults, ret, runs, history, fn, hashVars>>

GenWriteFail ==
   /\ pc = "g_write" /\ CanFail
   /\ faults' = faults + 1
   /\ \/ files' = files
      \/ files' = WriteFile(files, fn.name[<<salt, iterations>>], Truncated)
   /\ Return("err")
   /\ UNCHANGED <<entry, domain, wordlist, salt, iterations, cfg, subdomains, salt_bytes, hashes,
                  mutex, task, order, log, opens, runs, history, fn, hashVars>>

\* let file_size = fs::metadata(&output_path)?.len(); Ok(...)
GenMeta ==
   /\ pc = "g_meta"
   /\ Return("ok")
   /\ UNCHANGED <<entry, domain, wordlist, salt, iterations, cfg, subdomains, salt_bytes, hashes,
                  mutex, task, order, files, log, opens, faults, runs, history, fn, hashVars>>

GenMetaFail ==
   /\ pc = "g_meta" /\ CanFail
   /\ faults' = faults + 1
   /\ Return("err")
   /\ UNCHANGED <<entry, domain, wordlist, salt, iterations, cfg, subdomains, salt_bytes, hashes,
                  mutex, task, order, files, log, opens, runs, history, fn, hashVars>>

(***************************************************************************)
(* generate_common_configs: the loop over configs.                         *)
(***************************************************************************)
\* lines 300-306: print the header of configuration cfg and call the generator
BatchNext ==
   /\ pc = "b_loop" /\ cfg <= total
   /\ log' = Append(log, [ev |-> "config", cfg |-> cfg])
   /\ salt' = configs[cfg].salt
   /\ iterations' = configs[cfg].iterations
   /\ pc' = "g_load"
   /\ UNCHANGED <<entry, domain, wordlist, cfg, subdomains, salt_bytes, hashes,
                  mutex, task, order, files, opens, faults, ret, runs, history, fn, hashVars>>

\* a loop that propagates the first Err with `?`
BatchResultAbort ==
   /\ pc = "b_result"
   /\ log' = Append(log, [ev |-> IF ret = "ok" THEN "generated" ELSE "failed", cfg |-> cfg])
   /\ cfg' = cfg + 1
   /\ ret' = "none"
   /\ pc' = IF ret = "ok" THEN "b_loop" ELSE "exit_err"
   /\ UNCHANGED <<entry, domain, wordlist, salt, iterations, subdomains, salt_bytes, hashes,
                  mutex, task, order, files, opens, faults, runs, history, fn, hashVars>>

\* lines 306-316: Ok prints "Generated", Err prints "Failed"; next configuration
BatchResult ==
   /\ pc = "b_result"
   /\ log' = Append(log, [ev |-> IF ret = "ok" THEN "generated" ELSE "failed", cfg |-> cfg])
   /\ cfg' = cfg + 1
   /\ ret' = "none"
   /\ pc' = "b_loop"
   /\ UNCHANGED <<entry, domain, wordlist, salt, iterations, subdomains, salt_bytes, hashes,
                  mutex, task, order, files, opens, faults, runs, history, fn, hashVars>>

\* lines 318-341: the loop is over, Ok(())
BatchDone ==
   /\ pc = "b_loop" /\ cfg > total
   /\ pc' = "exit_ok"
   /\ UNCHANGED <<entry, domain, wordlist, salt, iterations, cfg, subdomains, salt_bytes, hashes,
                  mutex, task, order, files, log, opens, faults, ret, runs, history, fn, hashVars>>

(***************************************************************************)
(* The program: one process, either path.                                  *)
(***************************************************************************)
Init ==
   /\ NoHashCall
   /\ \/ \E w \in Wordlists, s \in SaltTexts, n \in 0..MaxIterations :
            StartTabulated("single", DomainA, w, s, n, "main")
      \/ \E w \in BatchWordlists :
            StartTabulated("batch", DomainA, w, <<>>, 0, "main")

Next ==
   \/ Main
   \/ MainLoad \/ MainSalt \/ MainJoin
   \/ MainMkdir \/ MainMkdirFail
   \/ MainWrite \/ MainWriteFail
   \/ MainMeta \/ MainMetaFail
   \/ \E i \in DOMAIN task : WorkerHash(i)
   \/ \E i \in DOMAIN task : WorkerLock(i)
   \/ \E i \in DOMAIN task : WorkerInsert(i)
   \/ GenLoad \/ GenSalt \/ GenJoin
   \/ GenMkdir \/ GenMkdirFail
   \/ GenWrite \/ GenWriteFail
   \/ GenMeta \/ GenMetaFail
   \/ BatchNext \/ BatchResult \/ BatchDone

Spec == Init /\ [][Next]_vars

(***************************************************************************)
(* generate_hash_for_config called on its own, with any salt text.         *)
(***************************************************************************)
InitGen ==
   /\ NoHashCall
   /\ \E w \in Wordlists, s \in SaltTexts, n \in 0..MaxIterations :
         StartTabulated("call", DomainA, w, s, n, "g_load")

NextGen ==
   \/ GenLoad \/ GenSalt \/ GenJoin
   \/ \E i \in DOMAIN task : WorkerHash(i)
   \/ \E i \in DOMAIN task : WorkerLock(i)
   \/ \E i \in DOMAIN task : WorkerInsert(i)
   \/ GenMkdir \/ GenMkdirFail
   \/ GenWrite \/ GenWriteFail
   \/ GenMeta \/ GenMetaFail

SpecGen == InitGen /\ [][NextGen]_vars

(***************************************************************************)
(* Several single-configuration runs over one output directory.            *)
(***************************************************************************)
RunRecord == [salt |-> salt, iterations |-> iterations, domain |-> domain, ok |-> pc = "exit_ok"]

\* the two pure functions on the arguments any of the runs passes them
RunFunctions ==
   [hash |-> HashTable({<<make_fqdn(l, d), parse_salt(s), n>> :
                           l \in UNION {Range(load_wordlist(w).val) : w \in RunWordlists},
                           d \in {DomainA, DomainB}, s \in RunSalts, n \in 0..MaxIterations}),
    name |-> NameTable(RunSalts \X (0..MaxIterations))]

InitRuns ==
   /\ NoHashCall
   /\ fn = RunFunctions
   /\ \E d \in {DomainA, DomainB}, w \in RunWordlists, s \in RunSalts, n \in 0..MaxIterations :
         StartProcess("single", d, w, s, n, "main")

\* the process has exited; the next one starts in the directory it left
NewRun ==
   /\ pc \in {"exit_ok", "exit_err"}
   /\ runs < MaxRuns
   /\ runs' = runs + 1
   /\ history' = history \cup {RunRecord}
   /\ \E d \in {DomainA, DomainB}, w \in RunWordlists, s \in RunSalts, n \in 0..MaxIterations :
         domain' = d /\ wordlist' = w /\ salt' = s /\ iterations' = n
   /\ pc' = "main" /\ cfg' = 0 /\ subdomains' = <<>> /\ salt_bytes' = <<>> /\ hashes' = EmptyMap
   /\ mutex' = FALSE /\ task' = <<>> /\ order' = <<>> /\ log' = <<>>
   /\ opens' = 0 /\ faults' = 0 /\ ret' = "none"
   /\ UNCHANGED <<entry, files, fn, hashVars>>

NextRuns ==
   \/ Main
   \/ MainLoad \/ MainSalt \/ MainJoin
   \/ \E i \in DOMAIN task : WorkerHash(i)
   \/ \E i \in DOMAIN task : WorkerLock(i)
   \/ \E i \in DOMAIN task : WorkerInsert(i)
   \/ MainMkdir \/ MainMkdirFail
   \/ MainWrite \/ MainWriteFail
   \/ MainMeta \/ MainMetaFail
   \/ NewRun

SpecRuns == InitRuns /\ [][NextRuns]_vars

(***************************************************************************)
(* Properties.                                                             *)
(***************************************************************************)
Exited == pc \in {"exit_ok", "exit_err"}

\* the inverse of encode_hash on 32 characters: the 20 bytes they encode
Base32Value(c) == IF c >= 97 THEN c - 97 ELSE c - 24

Base32Decode(t) == LET v(k) == IF k <= Len(t) THEN Base32Value(t[k]) ELSE 0
                   IN [j \in 1..((5 * Len(t)) \div 8) |->
                         LET p == 8 * (j - 1)
                             g == (p \div 5) + 1
                             o == p % 5
                         IN ((v(g) * 1024 + v(g + 1) * 32 + v(g + 2)) \div Pow2(7 - o)) % 256]

\* C4: whatever the fqdn, the salt (the empty one included) and the iteration
\* count, calculate_nsec3_hash returns exactly 32 characters, each one of
\* a-z or 2-7, so none of them the padding character '='.
C4_HashIs32LowerBase32 ==
   h_pc = "done" =>
      /\ Len(h_out) = 32
      /\ \A i \in 1..Len(h_out) : h_out[i] \in (97..122) \cup (50..55)
      /\ h_out = calculate_nsec3_hash(h_fqdn, h_salt, h_iter)

C4_Witness == h_pc = "done" /\ h_salt = <<>> /\ h_iter > 0 /\ h_fqdn # ToLower(h_fqdn)

\* C5: a call computes exactly 1 + iterations SHA-1 digests; with iterations = 0
\* the result encodes SHA1(lower-cased fqdn + salt); with iterations = n + 1 it
\* encodes one more SHA1(raw digest + salt) of the 20 bytes that the result
\* for n encodes.
C5_RoundsChainOnRawDigest ==
   /\ h_pc = "loop" => h_rounds = 1 + h_i
   /\ h_pc = "done" =>
         /\ h_rounds = 1 + h_iter
         /\ h_iter = 0 => h_out = ToLower(Base32Encode(Sha1(ToLower(h_fqdn) \o h_salt)))
         /\ h_iter > 0 =>
               h_out = ToLower(Base32Encode(Sha1(
                          Base32Decode(calculate_nsec3_hash(h_fqdn, h_salt, h_iter - 1)) \o h_salt)))

C5_Witness == h_pc = "done" /\ h_iter >= 2 /\ h_salt # <<>> /\ h_rounds = 1 + h_iter

(***************************************************************************)
(* The parallel phase and the artifact.                                    *)
(***************************************************************************)
\* the table key of candidate i
KeyOf(i) == fn.hash[<<make_fqdn(subdomains[i], domain), parse_salt(salt), iterations>>]

PairwiseDistinct == \A i, j \in DOMAIN subdomains : i # j => KeyOf(i) # KeyOf(j)

AfterJoin == pc \in {"m_mkdir", "m_write", "m_meta", "g_mkdir", "g_write", "g_meta"}

Written == pc \in {"m_meta", "g_meta"}

\* the lines of the file that are read without error and are not blank
NonEmptyLoaded(w) == {i \in DOMAIN w.lines : /\ \A j \in 1..i : w.lines[j].ok
                                              /\ Trim(w.lines[i].text) # <<>>}

LockHolders == {i \in DOMAIN task : task[i].pc = "locked"}

Finished == {i \in DOMAIN task : task[i].pc = "done"}

\* C2: the file is written only after every closure call has returned; when
\* the candidates' hashes are pairwise distinct, whatever the interleaving, the
\* written artifact holds exactly one entry per candidate, keyed by the hash of
\* label.domain and mapped to that fqdn, and its wordlist_size is the number of
\* non-empty lines loaded.
C2_ArtifactHoldsEveryCandidate ==
   /\ AfterJoin => AllDone
   /\ (Written /\ PairwiseDistinct) =>
         LET f == files[fn.name[<<salt, iterations>>]]
         IN /\ DOMAIN f.hashes = {KeyOf(i) : i \in DOMAIN subdomains}
            /\ \A i \in DOMAIN subdomains : f.hashes[KeyOf(i)] = make_fqdn(subdomains[i], domain)
            /\ Cardinality(DOMAIN f.hashes) = Len(subdomains)
            /\ f.wordlist_size = Cardinality(NonEmptyLoaded(wordlist))
            /\ f.wordlist_size = Len(subdomains)

C2_Witness ==
   /\ pc = "g_meta" /\ Len(subdomains) = 2 /\ PairwiseDistinct /\ order = <<2, 1>>
   /\ Cardinality(DOMAIN files[fn.name[<<salt, iterations>>]].hashes) = 2

\* position of candidate i in the order of the insert calls
Pos(i) == CHOOSE p \in 1..Len(order) : order[p] = i

\* candidates whose key an earlier candidate of the list already has
Collisions == {i \in DOMAIN subdomains : \E j \in 1..(i - 1) : KeyOf(j) = KeyOf(i)}

\* C3: once every candidate is inserted, the table has one entry per distinct
\* key, the value of a key is the fqdn of the candidate inserted last among
\* those with that key, and the table has |candidates| - |collisions| entries;
\* a collision raises no error.
C3_LastWriteWins ==
   ((InParallel /\ AllDone) \/ AfterJoin) =>
      /\ DOMAIN hashes = {KeyOf(i) : i \in DOMAIN subdomains}
      /\ \A i \in DOMAIN task :
            (\A j \in DOMAIN task : task[j].hash = task[i].hash => Pos(j) <= Pos(i))
               => hashes[task[i].hash] = task[i].fqdn
      /\ Cardinality(DOMAIN hashes) = Len(subdomains) - Cardinality(Collisions)
      /\ ret # "err"

C3_Witness ==
   /\ InParallel /\ AllDone /\ Len(subdomains) = 2
   /\ subdomains[1] # subdomains[2] /\ KeyOf(1) = KeyOf(2)
   /\ order = <<2, 1>>
   /\ hashes[KeyOf(1)] = make_fqdn(subdomains[1], domain)
   /\ Cardinality(DOMAIN hashes) = 1

\* C9: at most one closure call holds the guard; a call hashes before it takes
\* the lock; the table always holds exactly the keys of the calls that have
\* inserted, so no insertion is lost; and the table changes only in the step
\* of the call that holds the lock.
C9_Invariant ==
   /\ Cardinality(LockHolders) <= 1
   /\ mutex <=> LockHolders # {}
   /\ InParallel => /\ \A i \in LockHolders \cup Finished : task[i].hash = KeyOf(i)
                    /\ DOMAIN hashes = {task[i].hash : i \in Finished}
                    /\ Len(order) = Cardinality(Finished)

C9_InsertUnderLock ==
   (InParallel /\ hashes' # hashes) =>
      \E i \in LockHolders : /\ task'[i].pc = "done"
                             /\ hashes' = Insert(hashes, task[i].hash, task[i].fqdn)

C9_ExclusiveInsertion == []C9_Invariant /\ [][C9_InsertUnderLock]_vars

C9_Witness ==
   /\ mutex
   /\ \E i, j \in DOMAIN task : i # j /\ task[i].pc = "locked" /\ task[j].pc = "hashed"

(***************************************************************************)
(* The batch loop.                                                         *)
(***************************************************************************)
IsAttempt(e) == e.ev = "config"

IsResult(e) == e.ev \in {"generated", "failed"}

Attempts == SelectSeq(log, IsAttempt)

Results == SelectSeq(log, IsResult)

\* the artifact of configuration c is in the output directory
HasArtifact(c) ==
   LET name == fn.name[<<configs[c].salt, configs[c].iterations>>]
   IN /\ name \in DOMAIN files
      /\ files[name] # Truncated
      /\ files[name].salt = configs[c].salt
      /\ files[name].iterations = configs[c].iterations
      /\ files[name].domain = domain

\* C1: the batch attempts the configurations 1..8 in order, each once; a
\* failing configuration is logged and the loop goes on; the batch ends with
\* Ok and the artifact of every configuration that did not fail is then in the
\* output directory.
C1_BatchRunsEveryConfig ==
   entry = "batch" =>
      /\ \A k \in 1..Len(Attempts) : Attempts[k].cfg = k
      /\ \A k \in 1..Len(Results) : Results[k].cfg = k
      /\ Len(Attempts) - Len(Results) \in {0, 1}
      /\ Exited => /\ pc = "exit_ok"
                   /\ Len(Attempts) = total
                   /\ Len(Results) = total
                   /\ \A c \in 1..total : Results[c].ev = "generated" => HasArtifact(c)

C1_Witness ==
   /\ entry = "batch" /\ pc = "exit_ok" /\ faults = 1 /\ subdomains # <<>>
   /\ \E c \in 1..(total - 1) : /\ Results[c].ev = "failed"
                                /\ \A k \in (c + 1)..total : Results[k].ev = "generated" /\ HasArtifact(k)

\* C10 as stated: a batch run opens the wordlist once.
C10_LoadedOnce == entry = "batch" => opens <= 1

\* C10, amended: a batch run loads the wordlist once per configuration, at the
\* start of that configuration's generate_hash_for_config: when configuration
\* cfg is being hashed the file has been opened cfg times, and 8 times when the
\* batch ends.
C10_LoadedPerConfig ==
   entry = "batch" =>
      /\ pc \in {"b_loop", "g_load"} => opens = cfg - 1
      /\ pc \in {"g_salt", "g_par", "g_mkdir", "g_write", "g_meta", "b_result"} => opens = cfg
      /\ pc = "g_par" => subdomains = load_wordlist(wordlist).val
      /\ Exited => opens = total

C10_Witness == entry = "batch" /\ pc = "exit_ok" /\ opens = total /\ subdomains # <<>>

(***************************************************************************)
(* Errors.                                                                 *)
(***************************************************************************)
\* the file is missing, or one of its lines fails to read
ReadFails(w) == ~w.exists \/ \E i \in DOMAIN w.lines : ~w.lines[i].ok

\* C7: when reading the wordlist fails, also part-way through the file, no
\* candidate is hashed, no table is filled and no cache file is written.
C7_ReadFailureStopsRun ==
   ReadFails(wordlist) =>
      /\ \A i \in DOMAIN task : task[i].pc = "pending"
      /\ hashes = EmptyMap
      /\ files = EmptyMap

SaltParsed == pc \in {"m_par", "m_mkdir", "m_write", "m_meta", "exit_ok",
                      "g_par", "g_mkdir", "g_write", "g_meta", "returned", "b_result"}

RunsSoFar == history \cup {RunRecord}

ConfigsRun(R) == {<<r.salt, r.iterations>> : r \in R}

\* C6: a run that succeeds leaves its own artifact under the name of its salt
\* text and iteration count, whatever an earlier run left there; the directory
\* never holds more files than the runs had distinct (salt text, iterations)
\* pairs, whatever their domains and wordlists, and holds one file for each
\* such pair of the successful runs, so that salt texts that differ only in
\* case, though they decode to the same bytes, have files of their own.
C6_NameFromSaltTextAndIterations ==
   /\ pc = "exit_ok" => /\ fn.name[<<salt, iterations>>] \in DOMAIN files
                        /\ files[fn.name[<<salt, iterations>>]] = CacheFile
   /\ Exited =>
         /\ Cardinality(DOMAIN files) <= Cardinality(ConfigsRun(RunsSoFar))
         /\ Cardinality(DOMAIN files) >= Cardinality(ConfigsRun({r \in RunsSoFar : r.ok}))

C6_Witness ==
   /\ pc = "exit_ok" /\ runs = 2
   /\ \E r \in history : r.ok /\ r.salt = salt /\ r.iterations = iterations /\ r.domain # domain
   /\ Cardinality(DOMAIN files) = 1
   /\ files[fn.name[<<salt, iterations>>]].domain = domain

====
